---- MODULE Spec2Model ----
(***************************************************************************)
(* Dungeon generator (mapgen.rs) and frame loop with lighting / field of   *)
(* view / movement (main.rs) of the roguelike.                             *)
(*                                                                         *)
(* Coordinates are tiles <<x, y>>.  f32 quantities (light_intensity, the   *)
(* jitter, distances) are fixed-point integers in units of 1/Scale.        *)
(* The map and room sizes and the torch radius are scaled down so that the *)
(* state space is finite and small; the sight radius keeps its real value  *)
(* (larger than any distance on the map, as in the program).               *)
(***************************************************************************)
EXTENDS Integers, Sequences, FiniteSets, TLC

\* ---- scaled parameters (mapgen.rs:7-13, main.rs:192,219) ----
MAP_WIDTH == 6
MAP_HEIGHT == 6
ROOM_MAX_SIZE == 3
ROOM_MIN_SIZE == 2
MAX_ROOMS == 2
TORCH_DISTANCE == 2
\* cap on the length of the objects vector (player + torches)
MaxObjects == 2
\* cap on the number of frames the loop of main runs
MaxFrames == 2

\* ---- program constants ----
SIGHT_RADIUS == 100
FOV_LIGHT_WALLS == TRUE
\* fixed-point unit of an f32: 1.0 is Scale
Scale == 1000
\* values the Normal(0.0, 0.05) sample may take (negative, zero, positive)
Shifts == {0 - 50, 50}
\* an f32 that is not a number (0.0 / 0.0)
NaN == 0 - (Scale * Scale * Scale)

VARIABLES pc, iter, map, rooms, starting_position, objects, fov_map, key,
          torch_intensity_shift, frame

vars == <<pc, iter, map, rooms, starting_position, objects, fov_map, key,
          torch_intensity_shift, frame>>

Tiles == (0 .. MAP_WIDTH - 1) \X (0 .. MAP_HEIGHT - 1)

Min(a, b) == IF a <= b THEN a ELSE b
Max(a, b) == IF a >= b THEN a ELSE b
Abs(a) == IF a < 0 THEN 0 - a ELSE a

\* ---------------------------------------------------------------- Tile
TileEmpty ==
  [blocked |-> FALSE, explored |-> FALSE, block_sight |-> FALSE, light_intensity |-> 0]

TileWall ==
  [blocked |-> TRUE, explored |-> FALSE, block_sight |-> TRUE, light_intensity |-> 0]

\* ---------------------------------------------------------------- Rect
RectNew(x, y, w, h) == [x1 |-> x, y1 |-> y, x2 |-> x + w, y2 |-> y + h]

center_bad(r) == <<r.x1, r.y1>>

center(r) == <<(r.x1 + r.x2) \div 2, (r.y1 + r.y2) \div 2>>

intersects_with_bad(a, b) ==
  (a.x1 < b.x2) /\ (a.x2 > b.x1) /\ (a.y1 < b.y2) /\ (a.y2 > b.y1)

intersects_with(a, b) ==
  (a.x1 <= b.x2) /\ (a.x2 >= b.x1) /\ (a.y1 <= b.y2) /\ (a.y2 >= b.y1)

\* ---------------------------------------------------------------- carving
\* Tiles written by each carving routine; an index outside the grid panics.
RoomTiles(room) == ((room.x1 + 1) .. (room.x2 - 1)) \X ((room.y1 + 1) .. (room.y2 - 1))

HTunnelTiles(x1, x2, y) == (Min(x1, x2) .. Max(x1, x2)) \X {y}

VTunnelTiles(y1, y2, x) == {x} \X (Min(y1, y2) .. Max(y1, y2))

Carve(S, m) == [t \in Tiles |-> IF t \in S THEN TileEmpty ELSE m[t]]

create_room(room, m) == Carve(RoomTiles(room), m)

create_h_tunnel(x1, x2, y, m) == Carve(HTunnelTiles(x1, x2, y), m)

create_v_tunnel(y1, y2, x, m) == Carve(VTunnelTiles(y1, y2, x), m)

\* the tunnel pair joining the previous room's center to the new one's
ConnectRooms_bad(prev, new, coin, m) ==
  IF coin
  THEN create_v_tunnel(prev[2], new[2], prev[1], create_h_tunnel(prev[1], new[1], prev[2], m))
  ELSE create_h_tunnel(prev[1], new[1], prev[2], create_v_tunnel(prev[2], new[2], prev[1], m))

ConnectRooms(prev, new, coin, m) ==
  IF coin
  THEN create_v_tunnel(prev[2], new[2], new[1], create_h_tunnel(prev[1], new[1], prev[2], m))
  ELSE create_h_tunnel(prev[1], new[1], new[2], create_v_tunnel(prev[2], new[2], prev[1], m))

ConnectTiles(prev, new, coin) ==
  IF coin
  THEN HTunnelTiles(prev[1], new[1], prev[2]) \cup VTunnelTiles(prev[2], new[2], new[1])
  ELSE VTunnelTiles(prev[2], new[2], prev[1]) \cup HTunnelTiles(prev[1], new[1], new[2])

\* gen_range(low, high) draws from low .. high - 1
RoomSizes == ROOM_MIN_SIZE .. ROOM_MAX_SIZE

RoomXRange_bad(w) == 0 .. (MAP_WIDTH - w)

RoomXRange(w) == 0 .. (MAP_WIDTH - w - 1)

RoomYRange(h) == 0 .. (MAP_HEIGHT - h - 1)

\* ---------------------------------------------------------------- Init
Init ==
  /\ pc = "make_map"
  /\ iter = 0
  /\ map = [t \in Tiles |-> TileWall]
  /\ rooms = <<>>
  /\ starting_position = <<0, 0>>
  /\ objects = <<>>
  /\ fov_map = [transparent |-> {}, fov |-> {}]
  /\ key = "None"
  /\ torch_intensity_shift = <<>>
  /\ frame = 0

\* one iteration of the room loop of make_map
MakeMapIter(w, h, x, y, coin) ==
  /\ pc = "make_map"
  /\ iter < MAX_ROOMS
  /\ iter' = iter + 1
  /\ LET new_room == RectNew(x, y, w, h)
         failed == \E i \in 1 .. Len(rooms) : intersects_with(new_room, rooms[i])
         new == center(new_room)
         written == RoomTiles(new_room) \cup
                    (IF rooms = <<>> THEN {}
                     ELSE ConnectTiles(center(rooms[Len(rooms)]), new, coin))
     IN IF failed
        THEN UNCHANGED <<pc, map, rooms, starting_position>>
        ELSE IF ~(written \subseteq Tiles)
        THEN /\ pc' = "panic"
             /\ UNCHANGED <<map, rooms, starting_position>>
        ELSE /\ pc' = pc
             /\ map' = (IF rooms = <<>>
                        THEN create_room(new_room, map)
                        ELSE ConnectRooms(center(rooms[Len(rooms)]), new, coin,
                                          create_room(new_room, map)))
             /\ starting_position' = (IF rooms = <<>> THEN new ELSE starting_position)
             /\ rooms' = Append(rooms, new_room)
  /\ UNCHANGED <<objects, fov_map, key, torch_intensity_shift, frame>>

MakeMapStep ==
  \E w \in RoomSizes, h \in RoomSizes, coin \in BOOLEAN :
    \E x \in RoomXRange(w), y \in RoomYRange(h) : MakeMapIter(w, h, x, y, coin)

\* ---------------------------------------------------------------- Object
ObjectNew(x, y) == [x |-> x, y |-> y, torch_distance |-> 0]

WithTorch(o, td) == [o EXCEPT !.torch_distance = td]

\* ---------------------------------------------------------------- f32
\* largest r in lo .. hi with r * r <= n
RECURSIVE SqrtSearch(_, _, _)
SqrtSearch(n, lo, hi) ==
  IF lo >= hi THEN lo
  ELSE LET mid == (lo + hi + 1) \div 2
       IN IF mid * mid <= n THEN SqrtSearch(n, mid, hi) ELSE SqrtSearch(n, lo, mid - 1)

\* Map::distance: sqrt(dx*dx + dy*dy) as f32
distance(x0, y0, x1, y1) ==
  LET dx == x1 - x0
      dy == y1 - y0
      d2 == dx * dx + dy * dy
  IN SqrtSearch(d2 * Scale * Scale, 0, (Abs(dx) + Abs(dy)) * Scale)

FAdd(a, b) == IF a = NaN \/ b = NaN THEN NaN ELSE a + b

\* a / (td as f32) for a >= 0; 0.0 / 0.0 is NaN, a / 0.0 is +inf (kept as NaN:
\* not a usable number)
FDiv(a, td) == IF td = 0 THEN NaN ELSE a \div td

FNeg(a) == IF a = NaN THEN NaN ELSE 0 - a

\* .min(1.0).max(0.0): f32::min and f32::max return the other operand for NaN
Clamp(v) == IF v = NaN THEN Scale ELSE Max(Min(v, Scale), 0)

\* ---------------------------------------------------------------- clear_light
clear_light_bad(m) == [t \in Tiles |-> [m[t] EXCEPT !.light_intensity = 0, !.explored = FALSE]]

clear_light(m) == [t \in Tiles |-> [m[t] EXCEPT !.light_intensity = 0]]

\* ---------------------------------------------------------------- field of view
\* a / n rounded to the nearest integer, n > 0
RoundDiv(a, n) ==
  IF a >= 0 THEN (2 * a + n) \div (2 * n) ELSE 0 - ((2 * (0 - a) + n) \div (2 * n))

\* tiles strictly between the origin and the target on the ray to the target
RayTiles(ox, oy, x, y) ==
  LET dx == x - ox
      dy == y - oy
      n == Max(Abs(dx), Abs(dy))
  IN {<<ox + RoundDiv(i * dx, n), oy + RoundDiv(i * dy, n)>> : i \in 1 .. (n - 1)}

\* fov_map.compute_fov(ox, oy, radius, light_walls, Shadow) followed by
\* is_in_fov: the origin, and every tile within the radius (0: unlimited)
\* whose ray from the origin crosses only transparent tiles; opaque tiles are
\* included only when light_walls is set.
ComputeFov(transparent, ox, oy, radius, light_walls) ==
  {t \in Tiles :
     \/ t = <<ox, oy>>
     \/ /\ \/ radius = 0
           \/ (t[1] - ox) * (t[1] - ox) + (t[2] - oy) * (t[2] - oy) <= radius * radius
        /\ light_walls \/ t \in transparent
        /\ RayTiles(ox, oy, t[1], t[2]) \subseteq transparent}

\* ---------------------------------------------------------------- lighting
Emits_bad(object) == object.torch_distance >= 0

Emits(object) == object.torch_distance > 0

\* bounding box scanned around an emitter, clipped to the map
TorchBox(object) ==
  LET td == object.torch_distance
  IN {t \in Tiles : /\ t[1] >= object.x - td /\ t[1] <= object.x + td
                    /\ t[2] >= object.y - td /\ t[2] <= object.y + td}

\* 1.0 - distance / td + torch_intensity_shift
Contribution_bad(object, t, shift) ==
  FAdd(FAdd(Scale, FNeg(distance(object.x, object.y, t[1], t[2]))), shift)

Contribution(object, t, shift) ==
  FAdd(FAdd(Scale, FNeg(FDiv(distance(object.x, object.y, t[1], t[2]),
                              object.torch_distance))), shift)

AddLight_bad(cur, d) == IF cur = NaN \/ d = NaN THEN NaN ELSE Max(cur, d)

AddLight(cur, d) == FAdd(cur, d)

\* tiles one emitter adds light to
LitBy(object, transparent) ==
  TorchBox(object) \cap
  ComputeFov(transparent, object.x, object.y, object.torch_distance, FOV_LIGHT_WALLS)

\* the loop over objects of the lighting pass, from object i on
RECURSIVE LightPass(_, _, _, _, _)
LightPass(objs, shifts, transparent, m, i) ==
  IF i > Len(objs) THEN m
  ELSE IF ~Emits(objs[i]) THEN LightPass(objs, shifts, transparent, m, i + 1)
  ELSE LET lit == LitBy(objs[i], transparent)
           m2 == [t \in Tiles |->
                    IF t \in lit
                    THEN [m[t] EXCEPT !.light_intensity =
                            AddLight(m[t].light_intensity, Contribution(objs[i], t, shifts[i]))]
                    ELSE m[t]]
       IN LightPass(objs, shifts, transparent, m2, i + 1)

\* the tile loop: explore what is visible and lit
Explore(m, visible) ==
  [t \in Tiles |->
     IF t \in visible /\ Clamp(m[t].light_intensity) > 0
     THEN [m[t] EXCEPT !.explored = TRUE]
     ELSE m[t]]

render_all(objs, m, transparent, shifts) ==
  LET lighted == LightPass(objs, shifts, transparent, clear_light(m), 1)
      player == objs[1]
      visible == ComputeFov(transparent, player.x, player.y, SIGHT_RADIUS, FOV_LIGHT_WALLS)
  IN [map |-> Explore(lighted, visible), fov |-> visible]

\* ---------------------------------------------------------------- main
\* main, from the return of make_map to the first iteration of the loop
Main ==
  /\ pc = "make_map"
  /\ iter = MAX_ROOMS
  /\ pc' = "render_all"
  /\ objects' = <<WithTorch(ObjectNew(starting_position[1], starting_position[2]),
                            TORCH_DISTANCE)>>
  /\ fov_map' = [transparent |-> {t \in Tiles : ~map[t].block_sight}, fov |-> {}]
  /\ rooms' = <<>>
  /\ UNCHANGED <<iter, map, starting_position, key, torch_intensity_shift, frame>>

Keys == {"Up", "Down", "Left", "Right", "Spacebar", "Escape", "None"}

\* one jitter per emitter; objects that do not emit draw nothing
ShiftChoices(objs) ==
  {s \in [1 .. Len(objs) -> Shifts \cup {0}] :
     \A i \in 1 .. Len(objs) : IF Emits(objs[i]) THEN s[i] \in Shifts ELSE s[i] = 0}

\* loop head: the window is open, the pending key is read, the frame rendered
RenderStep ==
  /\ pc = "render_all"
  /\ frame < MaxFrames
  /\ frame' = frame + 1
  /\ pc' = "handle_keys"
  /\ \E shifts \in ShiftChoices(objects) :
       /\ torch_intensity_shift' = shifts
       /\ LET r == render_all(objects, map, fov_map.transparent, shifts)
          IN /\ map' = r.map
             /\ fov_map' = [fov_map EXCEPT !.fov = r.fov]
  /\ \E k \in Keys :
       /\ k = "Spacebar" => Len(objects) < MaxObjects
       /\ key' = k
  /\ UNCHANGED <<iter, rooms, starting_position, objects>>

WindowClosed ==
  /\ pc = "render_all"
  /\ pc' = "exit"
  /\ UNCHANGED <<iter, map, rooms, starting_position, objects, fov_map, key,
                 torch_intensity_shift, frame>>

Delta(k) ==
  CASE k = "Up" -> <<0, 0 - 1>>
    [] k = "Down" -> <<0, 1>>
    [] k = "Left" -> <<0 - 1, 0>>
    [] k = "Right" -> <<1, 0>>
    [] OTHER -> <<0, 0>>

Arrows == {"Up", "Down", "Left", "Right"}

\* the index expression of move_by is inside the grid (otherwise it panics)
MoveInBounds(object, dx, dy) == <<object.x + dx, object.y + dy>> \in Tiles

\* Object::move_by
move_by_bad(object, dx, dy, m) ==
  [object EXCEPT !.x = object.x + dx, !.y = object.y + dy]

move_by(object, dx, dy, m) ==
  IF ~m[<<object.x + dx, object.y + dy>>].blocked
  THEN [object EXCEPT !.x = object.x + dx, !.y = object.y + dy]
  ELSE object

HandleKeys ==
  /\ pc = "handle_keys"
  /\ IF key = "Escape"
     THEN pc' = "exit" /\ objects' = objects
     ELSE IF key \in Arrows
     THEN IF ~MoveInBounds(objects[1], Delta(key)[1], Delta(key)[2])
          THEN pc' = "panic" /\ objects' = objects
          ELSE /\ pc' = "render_all"
               /\ objects' = [objects EXCEPT
                                ![1] = move_by(objects[1], Delta(key)[1], Delta(key)[2], map)]
     ELSE IF key = "Spacebar"
     THEN /\ pc' = "render_all"
          /\ objects' = Append(objects, WithTorch(ObjectNew(objects[1].x, objects[1].y),
                                                  TORCH_DISTANCE))
     ELSE pc' = "render_all" /\ objects' = objects
  /\ UNCHANGED <<iter, map, rooms, starting_position, fov_map, key, torch_intensity_shift,
                 frame>>

Next == MakeMapStep \/ Main \/ RenderStep \/ WindowClosed \/ HandleKeys


Spec == Init /\ [][Next]_vars

\* ---------------------------------------------------------------- render_all on any objects
\* render_all takes any slice of objects: the player at the start position and
\* possibly a second object on a floor tile, each with radius 0 or the torch radius
ObjectInputs ==
  LET Radii == {0, TORCH_DISTANCE}
      Floor == {t \in Tiles : ~map[t].blocked}
      player(td) == WithTorch(ObjectNew(starting_position[1], starting_position[2]), td)
  IN {<<player(td)>> : td \in Radii} \cup
     {<<player(p[1]), WithTorch(ObjectNew(p[2][1], p[2][2]), p[3])>> :
        p \in Radii \X Floor \X Radii}

MainInputs ==
  /\ pc = "make_map"
  /\ iter = MAX_ROOMS
  /\ pc' = "render_all"
  /\ objects' \in ObjectInputs
  /\ fov_map' = [transparent |-> {t \in Tiles : ~map[t].block_sight}, fov |-> {}]
  /\ rooms' = <<>>
  /\ UNCHANGED <<iter, map, starting_position, key, torch_intensity_shift, frame>>

NextRender == MakeMapStep \/ MainInputs \/ RenderStep

SpecRender == Init /\ [][NextRender]_vars

\* ================================================================ properties
Player == objects[1]

InGame == pc \in {"render_all", "handle_keys", "exit"}

Returned == (pc = "make_map" /\ iter = MAX_ROOMS) \/ InGame

RoomMid(r) == <<(r.x1 + r.x2) \div 2, (r.y1 + r.y2) \div 2>>

\* C1: no two distinct accepted rooms have bounding rectangles that satisfy
\* the closed-interval overlap predicate, at any point of the generation loop.
C1_RoomsDisjoint ==
  \A i, j \in 1 .. Len(rooms) :
    i # j => ~(/\ rooms[i].x1 <= rooms[j].x2 /\ rooms[i].x2 >= rooms[j].x1
               /\ rooms[i].y1 <= rooms[j].y2 /\ rooms[i].y2 >= rooms[j].y1)

C1_Witness == pc = "make_map" /\ iter = MAX_ROOMS /\ Len(rooms) >= 2

Neighbours(t) ==
  {<<t[1] + 1, t[2]>>, <<t[1] - 1, t[2]>>, <<t[1], t[2] + 1>>, <<t[1], t[2] - 1>>} \cap Tiles

\* non-blocked tiles joined to the set S by 4-adjacent non-blocked tiles
RECURSIVE Reach(_)
Reach(S) ==
  LET N == S \cup {t \in UNION {Neighbours(u) : u \in S} : ~map[t].blocked}
  IN IF N = S THEN S ELSE Reach(N)

Connected(a, b) ==
  /\ a \in Tiles /\ b \in Tiles
  /\ ~map[a].blocked
  /\ b \in Reach({a})

\* C2: the centers of any two consecutively accepted rooms are joined by a
\* path of 4-adjacent non-blocked tiles, during generation and when it ends.
C2_CorridorConnectivity ==
  pc = "make_map" =>
    \A i \in 1 .. (Len(rooms) - 1) : Connected(RoomMid(rooms[i]), RoomMid(rooms[i + 1]))

C2_Witness ==
  /\ pc = "make_map" /\ iter = MAX_ROOMS /\ Len(rooms) >= 2
  /\ RoomMid(rooms[1])[1] # RoomMid(rooms[2])[1]
  /\ RoomMid(rooms[1])[2] # RoomMid(rooms[2])[2]

\* C3: the start position make_map returns is a non-blocked tile of the grid.
C3_StartNonBlocked ==
  Returned => starting_position \in Tiles /\ ~map[starting_position].blocked

C3_Witness == pc = "render_all" /\ frame = 0 /\ starting_position # <<0, 0>>

\* C4: after a frame every tile of the player's field of view is explored,
\* whatever light it received.
C4_VisibleExplored ==
  pc = "handle_keys" => \A t \in fov_map.fov : map[t].explored

\* C5: a move onto a blocked tile leaves the object where it is, a move onto
\* a non-blocked tile puts it exactly there; the grid and the other objects
\* do not change.
C5_MoveBy ==
  [][(pc = "handle_keys" /\ key \in Arrows) =>
       LET dest == <<Player.x + Delta(key)[1], Player.y + Delta(key)[2]>>
       IN /\ dest \in Tiles
          /\ IF map[dest].blocked
             THEN objects' = objects
             ELSE objects' = [objects EXCEPT ![1] = [x |-> dest[1], y |-> dest[2],
                                                     torch_distance |-> Player.torch_distance]]
          /\ map' = map]_vars

C5_Witness ==
  /\ pc = "render_all" /\ frame >= 1 /\ key \in Arrows
  /\ <<Player.x, Player.y>> # starting_position

\* the emitters of the frame whose sweep contains tile t
LightingEmitters(t) ==
  {i \in 1 .. Len(objects) :
     /\ objects[i].torch_distance > 0
     /\ t \in ComputeFov(fov_map.transparent, objects[i].x, objects[i].y,
                         objects[i].torch_distance, FOV_LIGHT_WALLS)}

OwnContribution(i, t) ==
  Scale - (distance(objects[i].x, objects[i].y, t[1], t[2]) \div objects[i].torch_distance)
        + torch_intensity_shift[i]

RECURSIVE SumContribution(_, _)
SumContribution(S, t) ==
  IF S = {} THEN 0
  ELSE LET i == CHOOSE j \in S : TRUE
       IN OwnContribution(i, t) + SumContribution(S \ {i}, t)

RECURSIVE SumNegativeShift(_)
SumNegativeShift(S) ==
  IF S = {} THEN 0
  ELSE LET i == CHOOSE j \in S : TRUE
       IN Min(0, torch_intensity_shift[i]) + SumNegativeShift(S \ {i})

\* C6 (as claimed): the stored light_intensity of every tile is never negative.
C6_LightNonNegative == \A t \in Tiles : map[t].light_intensity >= 0

\* C6 (amended): light_intensity is 0 until the first frame, and after a
\* frame's accumulation it is at least the sum of the negative jitters of the
\* emitters that lit the tile.
C6_LightLowerBound ==
  /\ pc = "make_map" => \A t \in Tiles : map[t].light_intensity = 0
  /\ pc = "handle_keys" =>
       \A t \in Tiles : map[t].light_intensity >= SumNegativeShift(LightingEmitters(t))

C6_Witness == pc = "handle_keys" /\ \E t \in Tiles : map[t].light_intensity < 0

\* C7: after the lighting pass a tile's light_intensity is the sum of the
\* contributions of the emitters of that frame that reach it; nothing is
\* carried over from the previous frame.
C7_LightIsSum ==
  pc = "handle_keys" =>
    \A t \in Tiles : map[t].light_intensity = SumContribution(LightingEmitters(t), t)

C7_Witness ==
  /\ pc = "handle_keys" /\ frame >= 2
  /\ \E t \in Tiles : Cardinality(LightingEmitters(t)) >= 2

\* C8: an explored tile stays explored in every later state.
C8_ExploredMonotone ==
  [][\A t \in Tiles : map[t].explored => map'[t].explored]_vars

C8_Witness ==
  /\ pc = "handle_keys" /\ frame >= 2
  /\ \E t \in Tiles :
       map[t].explored /\ ~(t \in fov_map.fov /\ map[t].light_intensity > 0)

\* the objects with a positive radius, and their jitters, in order
RECURSIVE PositiveRadius(_, _, _)
PositiveRadius(objs, shifts, i) ==
  IF i > Len(objs) THEN [objs |-> <<>>, shifts |-> <<>>]
  ELSE LET rest == PositiveRadius(objs, shifts, i + 1)
       IN IF objs[i].torch_distance > 0
          THEN [objs |-> <<objs[i]>> \o rest.objs, shifts |-> <<shifts[i]>> \o rest.shifts]
          ELSE rest

\* C9: an object of radius 0 adds nothing to any tile and no division by
\* zero happens: the light of the frame is a number and is the light the
\* objects of positive radius alone produce.
C9_ZeroRadius ==
  pc = "handle_keys" =>
    LET pos == PositiveRadius(objects, torch_intensity_shift, 1)
        alone == LightPass(pos.objs, pos.shifts, fov_map.transparent, clear_light(map), 1)
    IN \A t \in Tiles : /\ map[t].light_intensity # NaN
                        /\ map[t].light_intensity = alone[t].light_intensity

C9_Witness ==
  /\ pc = "handle_keys"
  /\ \E i, j \in 1 .. Len(objects) :
       objects[i].torch_distance = 0 /\ objects[j].torch_distance > 0

Border ==
  {t \in Tiles : t[1] = 0 \/ t[1] = MAP_WIDTH - 1 \/ t[2] = 0 \/ t[2] = MAP_HEIGHT - 1}

\* C10: the outer border of the grid stays wall, no index leaves the grid,
\* and the player is always on a non-blocked tile inside the grid.
C10_PlayerInBounds ==
  /\ pc # "panic"
  /\ \A t \in Border : map[t].blocked
  /\ InGame => /\ <<Player.x, Player.y>> \in Tiles
               /\ ~map[<<Player.x, Player.y>>].blocked

C10_Witness ==
  /\ pc = "render_all" /\ frame >= 1 /\ key \in Arrows
  /\ <<Player.x + Delta(key)[1], Player.y + Delta(key)[2]>> \in Border

====
